---- MODULE Spec2Model ----
(***************************************************************************)
(* GitSwitch: the profile store, the backup engine, the git config         *)
(* mutator and the audit log, as state machines over the handlers of the   *)
(* main process.  A handler is a task; it advances from one await point to *)
(* the next in one step.  In mode "serial" one handler runs at a time, in  *)
(* mode "conc" handlers interleave at their await points.                  *)
(***************************************************************************)
EXTENDS Integers, Sequences, FiniteSets, TLC

\* ------------------------------------------------------------------ bounds
MaxOps == 3         \* handlers started in one run
MaxProfiles == 2    \* profile ids uuidv4 hands out in one run
MaxBackups == 2     \* backup ids uuidv4 hands out in one run
MaxTasks == 2       \* handlers in flight at once (mode "conc")
MaxValue == 2       \* values a property of an audit entry takes

Tasks == 1..MaxTasks
ProfileIds == 1..MaxProfiles
BackupIds == 1..MaxBackups
Paths == {"global", "local"} \* ~/.gitconfig and <repo>/.git/config
None == 0
\* a config file: user.email, user.name and the remote's url, or no file
NoFile == [exists |-> FALSE, email |-> None, name |-> None, url |-> 0]

VARIABLES
    mode,            \* "serial" | "conc"
    profiles,        \* electron-store key 'profiles': sequence of Profile
    repositories,    \* electron-store key 'repositories': path -> Repository, or NoRepo
    vault,           \* keytar: profile ids holding a token
    gitFiles,        \* path -> content of the config file, or NoFile
    backupFiles,     \* backup id -> content of the backup file, or NoFile
    backupRegistry,  \* module-level backupRegistry: sequence of BackupInfo
    registryFile,    \* registry.json: whether it exists, and its BackupInfo list
    auditLog,        \* lines of the audit file, oldest first
    task,            \* the handlers in flight
    opCount,         \* handlers started so far
    nextProfile,     \* next uuid for a profile
    nextBackup,      \* next uuid for a backup
    lastWrite,       \* the latest write to a config file, and what preceded it
    live,            \* ids createBackup has returned, less those asked to be deleted
    entry,           \* an AuditLogEntry handed to verifyEntry
    tampered,        \* whether a field of it was altered after it was logged
    parsed,          \* whether it is the entry as getLogs read it from the file
    sanitized,       \* a details object given to auditService.log, and what was logged
    walk,            \* a directory tree given to the repository walk, and what it found
    suggested,       \* a discovery result, and the identities suggested from it
    clock,           \* the system time, in ticks
    auditFiles,      \* UTC day -> lines of audit-<day>.jsonl, oldest first
    logCalls,        \* the auditService.log calls in flight
    logsRead         \* options given to getLogs, and the entries it returned

otherVars == <<walk, suggested, clock, auditFiles, logCalls, logsRead>>

checksumVars == <<entry, tampered, parsed, sanitized, otherVars>>

vars == <<mode, profiles, repositories, vault, gitFiles, backupFiles,
          backupRegistry, registryFile, auditLog, task, opCount, nextProfile,
          nextBackup, lastWrite, live, checksumVars>>

\* ------------------------------------------------------------ record store
NoProfile == [id |-> None, email |-> None, username |-> None,
              isDefault |-> FALSE, tokenId |-> None,
              sshKeyPath |-> None, sshHostAlias |-> None]

IndexOf(seq, id) ==
    IF \E i \in 1..Len(seq) : seq[i].id = id
    THEN CHOOSE i \in 1..Len(seq) : seq[i].id = id /\ \A j \in 1..(i-1) : seq[j].id # id
    ELSE 0

getProfile(ps, id) ==
    IF IndexOf(ps, id) = 0 THEN NoProfile ELSE ps[IndexOf(ps, id)]

saveProfile(ps, p) ==
    IF IndexOf(ps, p.id) > 0
    THEN [ps EXCEPT ![IndexOf(ps, p.id)] = p]
    ELSE Append(ps, p)

deleteProfile(ps, id) ==
    LET Keep(p) == p.id # id IN SelectSeq(ps, Keep)

setDefaultProfile(ps, id) ==
    [i \in 1..Len(ps) |-> [ps[i] EXCEPT !.isDefault = (ps[i].id = id)]]

\* setDefault without its not-found return: the flags are rewritten at once
setDefaultUnchecked(ps, id) == setDefaultProfile(ps, id)
\* profileService.setDefault: nothing happens for an unknown id
setDefault(ps, id) ==
    IF getProfile(ps, id) = NoProfile THEN ps ELSE setDefaultProfile(ps, id)

Defaults(ps) == {i \in 1..Len(ps) : ps[i].isDefault}

\* ---------------------------------------------------------------- checksums
\* crypto.ts sha256: a digest, taken to be injective
sha256(content) == <<"sha256", content>>

\* An AuditLogEntry, as far as its checksum goes: the top-level properties
\* 'action' and 'backupId', and the keys 'profileId' and 'backupId' of its
\* details object.  keys are the names Object.keys gives; a property that is
\* not there, or is undefined, has the value Undefined.
Undefined == 0
Values == 1..MaxValue
TopKeys == {"action", "backupId"}
DetailKeys == {"profileId", "backupId"}
NoEntry == [keys |-> {}, top |-> [k \in TopKeys |-> Undefined],
            details |-> [k \in DetailKeys |-> Undefined], checksum |-> <<>>]

\* JSON.stringify(data, allow): a replacer array names the properties that are
\* written, at every depth; an undefined value is left out
Stringify(data, allow) ==
    [top |-> [k \in TopKeys |->
                IF k \in allow /\ k \in data.keys THEN data.top[k] ELSE Undefined],
     details |-> [k \in DetailKeys |->
                IF "details" \in allow /\ "details" \in data.keys /\ k \in allow
                THEN data.details[k] ELSE Undefined]]

\* generateChecksum: JSON.stringify(data, Object.keys(data).sort()), hashed
generateChecksum(data) == sha256(Stringify(data, data.keys))

\* auditService.verifyEntry: the checksum of the entry less its checksum
verifyEntry(e) == generateChecksum([e EXCEPT !.checksum = <<>>]) = e.checksum

\* appendToLog line 105 and getLogs line 146: JSON.parse(JSON.stringify(entry));
\* a property whose value is undefined is not written, so it is not read back
ReadBack(e) ==
    [e EXCEPT !.keys = {k \in e.keys : k = "details" \/ e.top[k] # Undefined}]

\* auditService.log lines 39-52: every property is set, some to undefined
LogEntry(action, backupId, details) ==
    LET rest == [keys |-> TopKeys \cup {"details"},
                 top |-> [k \in TopKeys |-> IF k = "action" THEN action ELSE backupId],
                 details |-> details, checksum |-> <<>>]
    IN  [rest EXCEPT !.checksum = generateChecksum(rest)]

\* ------------------------------------------------------- sanitizeDetails
\* A JSON value: a scalar, an object (fields: key -> value) or an array
\* (items: sequence of values).
Scalar(v) == [kind |-> "scalar", v |-> v, fields |-> <<>>, items |-> <<>>]
Object(fields) == [kind |-> "object", v |-> "", fields |-> fields, items |-> <<>>]
Array(items) == [kind |-> "array", v |-> "", fields |-> <<>>, items |-> items]
Redacted == Scalar("[REDACTED]")

DetailNames == {"authToken", "label"}
\* lowerKey.includes('password' | 'token' | 'secret' | 'private')
Sensitive(key) == key \in {"authToken"}

ObjectsOver(S) ==
    UNION {{Object(f) : f \in [K -> S]} : K \in SUBSET DetailNames \ {{}}}
InnerValues == {Scalar("x")} \cup ObjectsOver({Scalar("x")})
                \cup {Array(<<o>>) : o \in ObjectsOver({Scalar("x")})}
\* the details objects handed to auditService.log: two levels deep
DetailsInputs == {o.fields : o \in ObjectsOver(InnerValues)}

RECURSIVE sanitizeDetails(_)
sanitizeDetails(details) ==
    [key \in DOMAIN details |->
        IF Sensitive(key) THEN Redacted
        ELSE IF details[key].kind = "object"
             THEN Object(sanitizeDetails(details[key].fields))
             ELSE details[key]]

NotLogged == [logged |-> FALSE, details |-> <<>>, out |-> <<>>]

\* ------------------------------------------------------------------- tasks
\* email: "given" | "empty" (the string ''); ssh, for create: "none" | "path"
\* (input.sshKeyPath) | "generate" (authType 'ssh' and generateNewKey), for
\* update: "undef" | "path"
NoInput == [isDefault |-> "undef", token |-> FALSE, email |-> "given",
            ssh |-> "none"]

\* --------------------------------------------------------- gitService.getRepo
\* a Repository: binding, local identity, the remote's url, mismatch and status
NoRepo == [stored |-> FALSE, boundProfileId |-> None, localEmail |-> None,
           localUsername |-> None, url |-> 0, hasMismatch |-> FALSE,
           status |-> "unbound"]

\* lines 97-149, for a directory that is a git repository
getRepo(content) ==
    [stored |-> TRUE, boundProfileId |-> None,
     localEmail |-> content.email, localUsername |-> content.name,
     url |-> content.url, hasMismatch |-> FALSE,
     status |-> IF content.email # None \/ content.name # None
                THEN "bound" ELSE "unbound"]

\* ------------------------------------------------- discoveryService.discover
\* DiscoveryOptions: a phase runs unless its option is false
DiscoveryOptions == [scanSSHKeys : BOOLEAN, scanGitConfig : BOOLEAN,
                     scanRepositories : BOOLEAN]

NoOptions == [scanSSHKeys |-> TRUE, scanGitConfig |-> TRUE,
              scanRepositories |-> TRUE]

\* REPO_SCAN lines 15-20, with no options given by the renderer
ScanOptions == [scanSSHKeys |-> FALSE, scanGitConfig |-> FALSE,
                scanRepositories |-> TRUE]

IdleTask == [op |-> "idle", pc |-> "idle", id |-> None, inp |-> NoInput,
             prof |-> NoProfile, path |-> "", bk |-> None, content |-> NoFile,
             reg |-> <<>>, idx |-> 0, uid |-> None, before |-> NoFile, res |-> "",
             backedUp |-> {}, persisted |-> FALSE, mutated |-> FALSE,
             stale |-> FALSE, todo |-> <<>>, count |-> 0, cutoff |-> 0,
             repo |-> NoRepo, opts |-> NoOptions, errors |-> <<>>,
             failed |-> {}, got |-> {}]

\* A handler starts when the renderer invokes it; in mode "serial" the next
\* one starts only when the one before has returned.
CanStart(t) ==
    /\ task[t] = IdleTask
    /\ opCount < MaxOps
    /\ \A u \in 1..(t - 1) : task[u] # IdleTask
    /\ (mode = "serial" => \A u \in Tasks : task[u] = IdleTask)

Done(t, result) == [task[t] EXCEPT !.pc = "done", !.res = result]

\* --------------------------------------------------------------- audit log
AuditEntry(category, action, ref, backupId, mutated) ==
    [category |-> category, action |-> action, ref |-> ref,
     backupId |-> backupId, mutated |-> mutated]

\* ------------------------------------------------------- profileService.create
\* input.isDefault and whether input.token is given (authType 'https'); the
\* n-th profile is given the n-th e-mail address and user name
CreateInputs == [isDefault : {"undef", "true"}, token : BOOLEAN,
                 email : {"given"}, ssh : {"none"}]

\* lines 87-114: the profile, the unsetting of the other defaults, the save
CreateStore(ps, id, inp) ==
    LET isDefault == (inp.isDefault = "true") \/ Len(ps) = 0
        profile == [id |-> id,
                    email |-> IF inp.email = "empty" THEN None ELSE id,
                    username |-> IF inp.email = "empty" THEN None ELSE id,
                    isDefault |-> isDefault,
                    tokenId |-> IF inp.token THEN id ELSE None,
                    sshKeyPath |-> IF inp.ssh = "none" THEN None ELSE id,
                    sshHostAlias |-> IF inp.ssh = "generate" THEN id ELSE None]
        cleared == IF isDefault
                   THEN [i \in 1..Len(ps) |-> [ps[i] EXCEPT !.isDefault = FALSE]]
                   ELSE ps
    IN  saveProfile(cleared, profile)

StartCreateWith(t, inputs) ==
    /\ CanStart(t)
    /\ nextProfile <= MaxProfiles
    \* lines 58-76: sshService.generateKey or upsertSSHConfigEntry may throw
    /\ \E inp \in inputs, thrown \in BOOLEAN :
        /\ thrown => inp.ssh = "generate"
        /\ opCount' = opCount + 1
        /\ IF thrown
           THEN /\ task' = [task EXCEPT ![t] = [IdleTask EXCEPT !.op = "create",
                                !.pc = "done", !.inp = inp, !.res = "throw"]]
                /\ UNCHANGED <<profiles, nextProfile>>
           ELSE IF inp.token
           THEN /\ task' = [task EXCEPT ![t] = [IdleTask EXCEPT !.op = "create",
                                !.pc = "c_token", !.id = nextProfile, !.inp = inp]]
                /\ nextProfile' = nextProfile + 1
                /\ UNCHANGED profiles
           ELSE /\ profiles' = CreateStore(profiles, nextProfile, inp)
                /\ nextProfile' = nextProfile + 1
                /\ task' = [task EXCEPT ![t] = [IdleTask EXCEPT !.op = "create",
                                !.pc = "c_audit", !.id = nextProfile, !.inp = inp,
                                !.mutated = TRUE]]
    /\ UNCHANGED <<checksumVars, mode, live, repositories, vault, gitFiles, backupFiles, backupRegistry,
                   registryFile, auditLog, nextBackup, lastWrite>>

StartCreate(t) == StartCreateWith(t, CreateInputs)

\* await secureStore.storeToken(id, input.token), then lines 87-114
CreateToken(t) ==
    /\ task[t].op = "create" /\ task[t].pc = "c_token"
    /\ \/ /\ task' = [task EXCEPT ![t] = Done(t, "throw")]
          /\ UNCHANGED <<vault, profiles>>
       \/ /\ vault' = vault \cup {task[t].id}
          /\ profiles' = CreateStore(profiles, task[t].id, task[t].inp)
          /\ task' = [task EXCEPT ![t].pc = "c_audit", ![t].mutated = TRUE]
    /\ UNCHANGED <<checksumVars, mode, live, repositories, gitFiles, backupFiles, backupRegistry,
                   registryFile, auditLog, opCount, nextProfile, nextBackup, lastWrite>>

\* await auditService.logProfileCreated(profile.id, profile.label)
CreateAudit(t) ==
    /\ task[t].op = "create" /\ task[t].pc = "c_audit"
    /\ \/ /\ auditLog' = Append(auditLog, AuditEntry("profile", "created",
                                    task[t].id, None, task[t].mutated))
          /\ task' = [task EXCEPT ![t] = Done(t, "ok")]
       \/ /\ task' = [task EXCEPT ![t] = Done(t, "throw")]
          /\ UNCHANGED auditLog
    /\ UNCHANGED <<checksumVars, mode, live, profiles, repositories, vault, gitFiles, backupFiles,
                   backupRegistry, registryFile, opCount, nextProfile, nextBackup,
                   lastWrite>>

\* ------------------------------------------------------- profileService.update
UpdateInputs == [isDefault : {"undef", "true", "false"}, token : BOOLEAN,
                 email : {"given"}, ssh : {"undef"}]

\* input.isDefault ?? existing.isDefault
CoalesceFlag(a, b) == IF a = "undef" THEN b ELSE (a = "true")

\* lines 148-173: the default change, the merged profile, the save
UpdateStore(ps, existing, inp) ==
    LET switched == IF inp.isDefault = "true" /\ ~existing.isDefault
                    THEN [i \in 1..Len(ps) |->
                            [ps[i] EXCEPT !.isDefault = (ps[i].id = existing.id)]]
                    ELSE ps
        updated == [existing EXCEPT
                      !.isDefault = CoalesceFlag(inp.isDefault, existing.isDefault),
                      !.sshKeyPath = IF inp.ssh = "path" THEN existing.id ELSE @]
    IN  saveProfile(switched, updated)

StartUpdateWith(t, inputs) ==
    /\ CanStart(t)
    /\ \E id \in ProfileIds, inp \in inputs :
        LET existing == getProfile(profiles, id) IN
        /\ opCount' = opCount + 1
        /\ IF existing = NoProfile
           THEN /\ task' = [task EXCEPT ![t] = [IdleTask EXCEPT !.op = "update",
                                !.pc = "done", !.id = id, !.inp = inp, !.res = "null"]]
                /\ UNCHANGED profiles
           ELSE IF inp.token
           THEN /\ task' = [task EXCEPT ![t] = [IdleTask EXCEPT !.op = "update",
                                !.pc = "u_token", !.id = id, !.inp = inp,
                                !.prof = existing]]
                /\ UNCHANGED profiles
           ELSE /\ profiles' = UpdateStore(profiles, existing, inp)
                /\ task' = [task EXCEPT ![t] = [IdleTask EXCEPT !.op = "update",
                                !.pc = "u_audit", !.id = id, !.inp = inp,
                                !.prof = existing, !.mutated = TRUE]]
    /\ UNCHANGED <<checksumVars, mode, live, repositories, vault, gitFiles, backupFiles, backupRegistry,
                   registryFile, auditLog, nextProfile, nextBackup, lastWrite>>

StartUpdate(t) == StartUpdateWith(t, UpdateInputs)

\* await secureStore.storeToken(input.id, input.token), then lines 148-173
UpdateToken(t) ==
    /\ task[t].op = "update" /\ task[t].pc = "u_token"
    /\ \/ /\ task' = [task EXCEPT ![t] = Done(t, "throw")]
          /\ UNCHANGED <<vault, profiles>>
       \/ /\ vault' = vault \cup {task[t].id}
          /\ profiles' = UpdateStore(profiles, task[t].prof, task[t].inp)
          /\ task' = [task EXCEPT ![t].pc = "u_audit", ![t].mutated = TRUE]
    /\ UNCHANGED <<checksumVars, mode, live, repositories, gitFiles, backupFiles, backupRegistry,
                   registryFile, auditLog, opCount, nextProfile, nextBackup, lastWrite>>

\* await auditService.logProfileUpdated(updated.id, changes)
UpdateAudit(t) ==
    /\ task[t].op = "update" /\ task[t].pc = "u_audit"
    /\ \/ /\ auditLog' = Append(auditLog, AuditEntry("profile", "updated",
                                    task[t].id, None, task[t].mutated))
          /\ task' = [task EXCEPT ![t] = Done(t, "ok")]
       \/ /\ task' = [task EXCEPT ![t] = Done(t, "throw")]
          /\ UNCHANGED auditLog
    /\ UNCHANGED <<checksumVars, mode, live, profiles, repositories, vault, gitFiles, backupFiles,
                   backupRegistry, registryFile, opCount, nextProfile, nextBackup,
                   lastWrite>>

\* ------------------------------------------------------- profileService.delete
\* lines 200-202: secureStore.deleteProfile(id) and its result
DeleteSucceeds(ps, id) == Len(deleteProfile(ps, id)) # Len(ps)

\* lines 205-211: a deleted default hands the flag to the first remaining profile
Reelect(ps, profile) ==
    IF profile.isDefault /\ Len(ps) > 0 THEN setDefault(ps, ps[1].id) ELSE ps

StartDelete(t) ==
    /\ CanStart(t)
    /\ \E id \in ProfileIds :
        LET profile == getProfile(profiles, id) IN
        /\ opCount' = opCount + 1
        /\ IF profile = NoProfile
           THEN /\ task' = [task EXCEPT ![t] = [IdleTask EXCEPT !.op = "delete",
                                !.pc = "done", !.id = id, !.res = "false"]]
                /\ UNCHANGED profiles
           ELSE IF profile.tokenId # None
           THEN /\ task' = [task EXCEPT ![t] = [IdleTask EXCEPT !.op = "delete",
                                !.pc = "d_token", !.id = id, !.prof = profile]]
                /\ UNCHANGED profiles
           \* no tokenId: no deleteToken (lines 191-193)
           ELSE /\ profiles' = deleteProfile(profiles, id)
                /\ task' = [task EXCEPT ![t] = [IdleTask EXCEPT !.op = "delete",
                                !.pc = "d_audit", !.id = id, !.prof = profile,
                                !.mutated = TRUE]]
    /\ UNCHANGED <<checksumVars, mode, live, repositories, vault, gitFiles, backupFiles, backupRegistry,
                   registryFile, auditLog, nextProfile, nextBackup, lastWrite>>

\* await secureStore.deleteToken(profile.tokenId) (false on a keychain error,
\* never a throw), then secureStore.deleteProfile(id)
DeleteToken(t) ==
    /\ task[t].op = "delete" /\ task[t].pc = "d_token"
    /\ \E removed \in BOOLEAN :
        vault' = IF removed THEN vault \ {task[t].prof.tokenId} ELSE vault
    /\ IF DeleteSucceeds(profiles, task[t].id)
       THEN /\ profiles' = deleteProfile(profiles, task[t].id)
            /\ task' = [task EXCEPT ![t].pc = "d_audit", ![t].mutated = TRUE]
       ELSE /\ task' = [task EXCEPT ![t] = Done(t, "false")]
            /\ UNCHANGED profiles
    /\ UNCHANGED <<checksumVars, mode, live, repositories, gitFiles, backupFiles, backupRegistry,
                   registryFile, auditLog, opCount, nextProfile, nextBackup, lastWrite>>

\* await auditService.logProfileDeleted(id), then lines 205-211
DeleteAudit(t) ==
    /\ task[t].op = "delete" /\ task[t].pc = "d_audit"
    /\ \/ /\ auditLog' = Append(auditLog, AuditEntry("profile", "deleted",
                                    task[t].id, None, task[t].mutated))
          /\ profiles' = Reelect(profiles, task[t].prof)
          /\ task' = [task EXCEPT ![t] = Done(t, "true")]
       \/ /\ task' = [task EXCEPT ![t] = Done(t, "throw")]
          /\ UNCHANGED <<auditLog, profiles>>
    /\ UNCHANGED <<checksumVars, mode, live, repositories, vault, gitFiles, backupFiles,
                   backupRegistry, registryFile, opCount, nextProfile, nextBackup,
                   lastWrite>>

\* --------------------------------------------------- profileService.setDefault
\* synchronous: the PROFILE_SET_DEFAULT handler runs to its end in one step
SetDefault(t) ==
    /\ CanStart(t)
    /\ \E id \in ProfileIds :
        /\ profiles' = setDefault(profiles, id)
        /\ task' = [task EXCEPT ![t] = [IdleTask EXCEPT !.op = "setDefault",
                        !.pc = "done", !.id = id,
                        !.res = IF getProfile(profiles, id) = NoProfile
                                THEN "false" ELSE "true"]]
    /\ opCount' = opCount + 1
    /\ UNCHANGED <<checksumVars, mode, live, repositories, vault, gitFiles, backupFiles, backupRegistry,
                   registryFile, auditLog, nextProfile, nextBackup, lastWrite>>

\* the handler's promise settles and the renderer has its result
Return(t) ==
    /\ task[t].pc = "done"
    /\ task' = [task EXCEPT ![t] = IdleTask]
    /\ UNCHANGED <<checksumVars, mode, live, profiles, repositories, vault, gitFiles, backupFiles,
                   backupRegistry, registryFile, auditLog, opCount, nextProfile,
                   nextBackup, lastWrite>>

\* ------------------------------------------------------------ backup engine
\* timestamp: new Date() at line 429, taken with the id; later ids, later times
BackupInfo(id, originalPath, content) ==
    [id |-> id, timestamp |-> id, originalPath |-> originalPath,
     originalHash |-> sha256(content), restored |-> FALSE]

RegistryIds(reg) == {reg[i].id : i \in 1..Len(reg)}

\* saveRegistry: registry.json becomes the module-level list as it is now
saveRegistry(reg) == [exists |-> TRUE, entries |-> reg]

\* Array.prototype.splice(index, 1), index counted from 1 here
Splice(reg, index) ==
    [i \in 1..(Len(reg) - (IF index <= Len(reg) THEN 1 ELSE 0)) |->
        IF i < index THEN reg[i] ELSE reg[i + 1]]

NoWrite == [path |-> "", op |-> "", backedUp |-> TRUE, hadFile |-> FALSE,
            persisted |-> TRUE]

\* what a write to a config file is preceded by, within its handler
WriteBy(t, path) ==
    [path |-> path, op |-> task[t].op, backedUp |-> path \in task[t].backedUp,
     hadFile |-> task[t].content.exists, persisted |-> task[t].persisted]

\* createBackup lines 417-425: pathExists, then readFile and the hash
BackupRead(t) ==
    /\ task[t].pc = "b_read"
    /\ \/ /\ ~gitFiles[task[t].path].exists
          /\ task' = [task EXCEPT ![t].pc = "w_email",
                                  ![t].backedUp = @ \cup {task[t].path}]
       \/ /\ gitFiles[task[t].path].exists
          /\ task' = [task EXCEPT ![t].pc = "b_write",
                                  ![t].content = gitFiles[task[t].path],
                                  ![t].backedUp = @ \cup {task[t].path}]
       \/ /\ gitFiles[task[t].path].exists
          /\ task' = [task EXCEPT ![t] = Done(t, "fail")]
    /\ UNCHANGED <<checksumVars, mode, live, profiles, repositories, vault, gitFiles, backupFiles,
                   backupRegistry, registryFile, auditLog, opCount, nextProfile,
                   nextBackup, lastWrite>>

\* createBackup lines 427-456: the backup file, the push, the call of saveRegistry
BackupWrite(t) ==
    /\ task[t].pc = "b_write"
    /\ \/ /\ backupFiles' = [backupFiles EXCEPT ![task[t].uid] = task[t].content]
          /\ backupRegistry' = Append(backupRegistry,
                BackupInfo(task[t].uid, task[t].path, task[t].content))
          /\ task' = [task EXCEPT ![t].pc = "b_save"]
       \/ /\ task' = [task EXCEPT ![t] = Done(t, "fail")]
          /\ UNCHANGED <<backupFiles, backupRegistry>>
    /\ UNCHANGED <<checksumVars, mode, live, profiles, repositories, vault, gitFiles, registryFile,
                   auditLog, opCount, nextProfile, nextBackup, lastWrite>>

\* saveRegistry after its ensureDir: fs.writeFile(registryPath, ...), then
\* createBackup returns the BackupInfo
BackupSave(t) ==
    /\ task[t].pc = "b_save"
    /\ \/ /\ registryFile' = saveRegistry(backupRegistry)
          /\ live' = live \cup {task[t].uid}
          /\ task' = [task EXCEPT ![t].pc = "w_email", ![t].bk = task[t].uid,
                        ![t].persisted = task[t].uid \in RegistryIds(backupRegistry)]
       \/ /\ task' = [task EXCEPT ![t] = Done(t, "fail")]
          /\ UNCHANGED <<registryFile, live>>
    /\ UNCHANGED <<checksumVars, mode, profiles, repositories, vault, gitFiles, backupFiles,
                   backupRegistry, auditLog, opCount, nextProfile, nextBackup,
                   lastWrite>>

\* ---------------------------------------------------------- git config mutator
\* git config user.email / user.name: creates the file when there is none
addConfig(content, key, value) ==
    IF key = "user.email"
    THEN [content EXCEPT !.exists = TRUE, !.email = value]
    ELSE [content EXCEPT !.exists = TRUE, !.name = value]

\* setLocalConfig lines 193-195, setGlobalConfig lines 226-228
WriteEmail(t) ==
    /\ task[t].pc = "w_email"
    /\ \/ /\ task[t].prof.email # None
          /\ gitFiles' = [gitFiles EXCEPT ![task[t].path] =
                            addConfig(@, "user.email", task[t].prof.email)]
          /\ lastWrite' = WriteBy(t, task[t].path)
          /\ task' = [task EXCEPT ![t].pc = "w_name"]
       \/ /\ task[t].prof.email # None
          /\ task' = [task EXCEPT ![t] = Done(t, "fail")]
          /\ UNCHANGED <<gitFiles, lastWrite>>
       \/ /\ task[t].prof.email = None      \* if (config.email): '' is falsy
          /\ task' = [task EXCEPT ![t].pc = "w_name"]
          /\ UNCHANGED <<gitFiles, lastWrite>>
    /\ UNCHANGED <<checksumVars, mode, live, profiles, repositories, vault, backupFiles, backupRegistry,
                   registryFile, auditLog, opCount, nextProfile, nextBackup>>

\* setLocalConfig lines 197-199, then its audit entry is due;
\* setGlobalConfig lines 230-232, then switchGlobal line 256 (this.setDefault)
WriteName(t) ==
    /\ task[t].pc = "w_name"
    /\ \/ /\ IF task[t].prof.username # None      \* if (config.username)
             THEN /\ gitFiles' = [gitFiles EXCEPT ![task[t].path] =
                            addConfig(@, "user.name", task[t].prof.username)]
                  /\ lastWrite' = WriteBy(t, task[t].path)
             ELSE UNCHANGED <<gitFiles, lastWrite>>
          /\ IF task[t].op = "switchGlobal"
             THEN /\ profiles' = setDefault(profiles, task[t].id)
                  /\ task' = [task EXCEPT ![t].pc = "s_audit", ![t].mutated = TRUE]
             ELSE /\ task' = [task EXCEPT ![t].pc = "l_audit", ![t].mutated = TRUE]
                  /\ UNCHANGED profiles
       \/ /\ task[t].prof.username # None
          /\ task' = [task EXCEPT ![t] = Done(t, "fail")]
          /\ UNCHANGED <<gitFiles, lastWrite, profiles>>
    /\ UNCHANGED <<checksumVars, mode, live, repositories, vault, backupFiles, backupRegistry,
                   registryFile, auditLog, opCount, nextProfile, nextBackup>>

\* gitService.setRemoteUrl: git remote set-url, one write to .git/config
SetRemoteUrl(t) ==
    /\ CanStart(t)
    /\ gitFiles["local"].exists
    /\ opCount' = opCount + 1
    /\ \/ /\ gitFiles' = [gitFiles EXCEPT !["local"].url = 1 - @]
          /\ lastWrite' = [path |-> "local", op |-> "setRemoteUrl",
                           backedUp |-> FALSE, hadFile |-> TRUE, persisted |-> FALSE]
          /\ task' = [task EXCEPT ![t] = [IdleTask EXCEPT !.op = "setRemoteUrl",
                          !.pc = "done", !.path = "local", !.res = "ok"]]
       \/ /\ task' = [task EXCEPT ![t] = [IdleTask EXCEPT !.op = "setRemoteUrl",
                          !.pc = "done", !.path = "local", !.res = "fail"]]
          /\ UNCHANGED <<gitFiles, lastWrite>>
    /\ UNCHANGED <<checksumVars, mode, live, profiles, repositories, vault, backupFiles, backupRegistry,
                   registryFile, auditLog, nextProfile, nextBackup>>

\* ------------------------------------------------- profileService.switchGlobal
StartSwitchGlobal(t) ==
    /\ CanStart(t)
    /\ nextBackup <= MaxBackups
    /\ \E id \in ProfileIds :
        LET profile == getProfile(profiles, id) IN
        /\ opCount' = opCount + 1
        /\ IF profile = NoProfile
           THEN /\ task' = [task EXCEPT ![t] = [IdleTask EXCEPT !.op = "switchGlobal",
                                !.pc = "done", !.id = id, !.res = "fail"]]
                /\ UNCHANGED nextBackup
           ELSE /\ task' = [task EXCEPT ![t] = [IdleTask EXCEPT !.op = "switchGlobal",
                                !.pc = "b_read", !.id = id, !.prof = profile,
                                !.path = "global", !.uid = nextBackup,
                                !.before = gitFiles["global"]]]
                /\ nextBackup' = nextBackup + 1
    /\ UNCHANGED <<checksumVars, mode, live, profiles, repositories, vault, gitFiles, backupFiles,
                   backupRegistry, registryFile, auditLog, nextProfile, lastWrite>>

\* await auditService.log('profile', 'global_switch', ...); a throw is caught
\* and reported as success: false
SwitchAudit(t) ==
    /\ task[t].pc = "s_audit"
    /\ \/ /\ auditLog' = Append(auditLog, AuditEntry("profile", "global_switch",
                                    task[t].id, None, task[t].mutated))
          /\ task' = [task EXCEPT ![t] = Done(t, "ok")]
       \/ /\ task' = [task EXCEPT ![t] = Done(t, "fail")]
          /\ UNCHANGED auditLog
    /\ UNCHANGED <<checksumVars, mode, live, profiles, repositories, vault, gitFiles, backupFiles,
                   backupRegistry, registryFile, opCount, nextProfile, nextBackup,
                   lastWrite>>

\* ------------------------------------------------------------------ repos.bind
StartBind(t) ==
    /\ CanStart(t)
    /\ nextBackup <= MaxBackups
    /\ \E id \in ProfileIds :
        LET profile == getProfile(profiles, id) IN
        /\ opCount' = opCount + 1
        /\ IF profile = NoProfile
           THEN /\ task' = [task EXCEPT ![t] = [IdleTask EXCEPT !.op = "bind",
                                !.pc = "done", !.id = id, !.res = "fail"]]
                /\ UNCHANGED nextBackup
           ELSE /\ task' = [task EXCEPT ![t] = [IdleTask EXCEPT !.op = "bind",
                                !.pc = "b_read", !.id = id, !.prof = profile,
                                !.path = "local", !.uid = nextBackup,
                                !.before = gitFiles["local"]]]
                /\ nextBackup' = nextBackup + 1
    /\ UNCHANGED <<checksumVars, mode, live, profiles, repositories, vault, gitFiles, backupFiles,
                   backupRegistry, registryFile, auditLog, nextProfile, lastWrite>>

\* setLocalConfig line 202: auditService.logRepoBinding(repoPath,
\* 'direct-config', backup?.id); a throw leaves setLocalConfig as an error
BindAudit(t) ==
    /\ task[t].pc = "l_audit"
    /\ \/ /\ auditLog' = Append(auditLog, AuditEntry("repository", "bound",
                                    task[t].path, task[t].bk, task[t].mutated))
          /\ task' = [task EXCEPT ![t].pc = "l_save"]
       \/ /\ task' = [task EXCEPT ![t] = Done(t, "fail")]
          /\ UNCHANGED auditLog
    /\ UNCHANGED <<checksumVars, mode, live, profiles, repositories, vault, gitFiles, backupFiles,
                   backupRegistry, registryFile, opCount, nextProfile, nextBackup,
                   lastWrite>>

\* REPO_BIND lines 87-96: getRepo, then the binding is saved when it gave a repo
BindSave(t) ==
    /\ task[t].pc = "l_save"
    /\ \E found \in BOOLEAN :
        repositories' = IF found
                        THEN [repositories EXCEPT !["local"] =
                                [getRepo(gitFiles["local"]) EXCEPT
                                    !.boundProfileId = task[t].id]]
                        ELSE repositories
    /\ task' = [task EXCEPT ![t] = Done(t, "ok")]
    /\ UNCHANGED <<checksumVars, mode, live, profiles, vault, gitFiles, backupFiles, backupRegistry,
                   registryFile, auditLog, opCount, nextProfile, nextBackup,
                   lastWrite>>

\* ------------------------------------------------ repos.unbind, get and scan
UnboundAfresh(repo) == [NoRepo EXCEPT !.stored = TRUE]

\* REPO_UNBIND line 109: repo.boundProfileId = undefined
Unbound(repo) == [repo EXCEPT !.boundProfileId = None]

\* REPO_UNBIND: synchronous; the stored Repository, if any, is saved without
\* its binding
Unbind(t) ==
    /\ CanStart(t)
    /\ opCount' = opCount + 1
    /\ repositories' = IF repositories["local"].stored
                       THEN [repositories EXCEPT !["local"] = Unbound(@)]
                       ELSE repositories
    /\ task' = [task EXCEPT ![t] = [IdleTask EXCEPT !.op = "unbind", !.pc = "done",
                        !.path = "local", !.repo = repositories["local"],
                        !.res = "unbound"]]
    /\ UNCHANGED <<checksumVars, mode, live, profiles, vault, gitFiles, backupFiles,
                   backupRegistry, registryFile, auditLog, nextProfile, nextBackup,
                   lastWrite>>

\* REPO_GET: getRepo(path); null gives NOT_FOUND
GetRepo(t) ==
    /\ CanStart(t)
    /\ opCount' = opCount + 1
    /\ \E found \in BOOLEAN :
        task' = [task EXCEPT ![t] = [IdleTask EXCEPT !.op = "getRepo", !.pc = "done",
                    !.path = "local",
                    !.repo = IF found THEN getRepo(gitFiles["local"]) ELSE NoRepo,
                    !.res = IF found THEN "ok" ELSE "fail"]]
    /\ UNCHANGED <<checksumVars, mode, live, profiles, repositories, vault, gitFiles,
                   backupFiles, backupRegistry, registryFile, auditLog, nextProfile,
                   nextBackup, lastWrite>>

\* discover lines 140-153: the empty result; a task keeps in got the phases
\* whose output the result carries, in errors the strings pushed, and in
\* failed the phases that failed
StartDiscoverAs(t, op, options) ==
    /\ CanStart(t)
    /\ opCount' = opCount + 1
    /\ \E o \in options :
        task' = [task EXCEPT ![t] = [IdleTask EXCEPT !.op = op, !.pc = "dv_keys",
                                        !.path = "local", !.opts = o]]
    /\ UNCHANGED <<checksumVars, mode, live, profiles, repositories, vault, gitFiles,
                   backupFiles, backupRegistry, registryFile, auditLog, nextProfile,
                   nextBackup, lastWrite>>

\* DISCOVERY_SCAN: discover(options)
StartDiscover(t) == StartDiscoverAs(t, "discover", DiscoveryOptions)

\* a phase inside try/catch, the catch pushing its message (lines 158-166,
\* 170-178): the phase is skipped, succeeds, or fails with an error string
PhaseWithError(t, enabled, phase, next) ==
    \/ /\ ~enabled
       /\ task' = [task EXCEPT ![t].pc = next]
    \/ /\ enabled
       /\ task' = [task EXCEPT ![t].pc = next, ![t].got = @ \cup {phase}]
    \/ /\ enabled
       /\ task' = [task EXCEPT ![t].pc = next, ![t].failed = @ \cup {phase},
                               ![t].errors = Append(@, phase)]

\* a phase whose callee catches every error itself (getGlobalConfig returns
\* {}, findGitRepos and isDirectory skip what they cannot read; lines 204-216
\* log at debug level): a failure pushes nothing
PhaseSwallowed(t, enabled, phase, next) ==
    \/ /\ ~enabled
       /\ task' = [task EXCEPT ![t].pc = next]
    \/ /\ enabled
       /\ task' = [task EXCEPT ![t].pc = next, ![t].got = @ \cup {phase}]
    \/ /\ enabled
       /\ task' = [task EXCEPT ![t].pc = next, ![t].failed = @ \cup {phase}]

DiscoverFrame ==
    UNCHANGED <<checksumVars, mode, live, profiles, repositories, vault, gitFiles,
                backupFiles, backupRegistry, registryFile, auditLog, opCount,
                nextProfile, nextBackup, lastWrite>>

\* 1. result.sshKeys = await sshService.listKeys()
DiscoverKeys(t) ==
    /\ task[t].pc = "dv_keys"
    /\ PhaseWithError(t, task[t].opts.scanSSHKeys, "sshKeys", "dv_sshconfig")
    /\ DiscoverFrame

\* 2. result.sshConfigEntries = await sshService.getSSHConfig()
DiscoverSSHConfig(t) ==
    /\ task[t].pc = "dv_sshconfig"
    /\ PhaseWithError(t, task[t].opts.scanSSHKeys, "sshConfigEntries", "dv_gitconfig")
    /\ DiscoverFrame

\* 3. result.globalGitConfig = await gitService.getGlobalConfig()
DiscoverGitConfig(t) ==
    /\ task[t].pc = "dv_gitconfig"
    /\ PhaseSwallowed(t, task[t].opts.scanGitConfig, "globalGitConfig", "dv_walk")
    /\ DiscoverFrame

\* 4. the walk of the scan directories
DiscoverWalk(t) ==
    /\ task[t].pc = "dv_walk"
    /\ PhaseSwallowed(t, task[t].opts.scanRepositories, "repositories", "dv_audit")
    /\ DiscoverFrame

\* lines 226-232: buildIdentitySuggestions, then
\* await auditService.logDiscoveryCompleted(...), outside any try
DiscoverAudit(t) ==
    /\ task[t].pc = "dv_audit"
    /\ \/ /\ auditLog' = Append(auditLog, AuditEntry("discovery", "completed",
                                    None, None, task[t].mutated))
          /\ task' = [task EXCEPT ![t] =
                        IF task[t].op = "scan"
                        THEN [task[t] EXCEPT !.pc = "sc_save"]
                        ELSE Done(t, "ok")]
       \/ /\ task' = [task EXCEPT ![t] =
                        Done(t, IF task[t].op = "scan" THEN "fail" ELSE "throw")]
          /\ UNCHANGED auditLog
    /\ UNCHANGED <<checksumVars, mode, live, profiles, repositories, vault, gitFiles,
                   backupFiles, backupRegistry, registryFile, opCount, nextProfile,
                   nextBackup, lastWrite>>

\* REPO_SCAN: discover with the repository walk only
Scan(t) == StartDiscoverAs(t, "scan", {ScanOptions})

\* REPO_SCAN lines 22-37: getRepo for each directory discover found, then
\* saveRepositories, which puts each in the place of the stored one
ScanSave(t) ==
    /\ task[t].op = "scan" /\ task[t].pc = "sc_save"
    /\ \E found \in BOOLEAN :
        /\ found => "repositories" \in task[t].got
        /\ repositories' = IF found
                           THEN [repositories EXCEPT !["local"] = getRepo(gitFiles["local"])]
                           ELSE repositories
        /\ task' = [task EXCEPT ![t].pc = "done", ![t].res = "ok",
                    ![t].repo = IF found THEN getRepo(gitFiles["local"]) ELSE NoRepo]
    /\ UNCHANGED <<checksumVars, mode, live, profiles, vault, gitFiles, backupFiles,
                   backupRegistry, registryFile, auditLog, opCount, nextProfile,
                   nextBackup, lastWrite>>

\* ------------------------------------------ backup.restore (BACKUP_RESTORE)
GetBackup(reg, id) == reg[IndexOf(reg, id)]

\* createBackup line 428: the id is a uuid made inside the call; a caller of
\* restoreBackup or deleteBackup can name it only once the call has ended
KnownId(id) ==
    \A u \in Tasks :
        ~(task[u].pc \in {"b_read", "b_write", "b_save"} /\ task[u].uid = id)

\* backup.restored = true reaches the list only while the BackupInfo object
\* restoreBackup found is still an element of it
MarkRestored(reg, id, stale) ==
    IF stale \/ IndexOf(reg, id) = 0 THEN reg
    ELSE [reg EXCEPT ![IndexOf(reg, id)].restored = TRUE]

\* line 499: the path the backup content is written to
RestoreTargetGlobal(backup) == "global"

RestoreTarget(backup) == backup.originalPath

\* BACKUP_RESTORE lines 26-30: the handler goes on to its audit entry only
\* when restoreBackup gave true
RestoreLogsAlways(success) == TRUE

RestoreLogs(success) == success

\* restoreBackup lines 477-487: the backup is registered (find) and its
\* backup file is there (pathExists)
RestorableIfListed(reg, files, id) == IndexOf(reg, id) # 0

Restorable(reg, files, id) == IndexOf(reg, id) # 0 /\ files[id].exists

\* restoreBackup lines 477-490: find, pathExists, readFile
StartRestore(t) ==
    /\ CanStart(t)
    /\ opCount' = opCount + 1
    /\ \E id \in BackupIds :
        /\ KnownId(id)
        /\ IF ~Restorable(backupRegistry, backupFiles, id)
           THEN task' = [task EXCEPT ![t] = [IdleTask EXCEPT !.op = "restore",
                             !.pc = IF RestoreLogs(FALSE) THEN "rs_audit" ELSE "done",
                             !.uid = id, !.res = "false"]]
           ELSE \/ task' = [task EXCEPT ![t] = [IdleTask EXCEPT !.op = "restore",
                             !.pc = "rs_write", !.uid = id,
                             !.path = RestoreTarget(GetBackup(backupRegistry, id)),
                             !.content = backupFiles[id],
                             !.before = gitFiles[RestoreTarget(GetBackup(backupRegistry, id))]]]
                \/ task' = [task EXCEPT ![t] = [IdleTask EXCEPT !.op = "restore",
                             !.pc = "done", !.uid = id, !.res = "throw"]]
    /\ UNCHANGED <<checksumVars, mode, live, profiles, repositories, vault, gitFiles, backupFiles,
                   backupRegistry, registryFile, auditLog, nextProfile, nextBackup,
                   lastWrite>>

\* restoreBackup lines 499-503: the write to the original path, the flag, the
\* call of saveRegistry
RestoreWrite(t) ==
    /\ task[t].pc = "rs_write"
    /\ \/ /\ gitFiles' = [gitFiles EXCEPT ![task[t].path] = task[t].content]
          /\ lastWrite' = WriteBy(t, task[t].path)
          /\ backupRegistry' = MarkRestored(backupRegistry, task[t].uid, task[t].stale)
          /\ task' = [task EXCEPT ![t].pc = "rs_save"]
       \/ /\ task' = [task EXCEPT ![t] = Done(t, "throw")]
          /\ UNCHANGED <<gitFiles, lastWrite, backupRegistry>>
    /\ UNCHANGED <<checksumVars, mode, live, profiles, repositories, vault, backupFiles, registryFile,
                   auditLog, opCount, nextProfile, nextBackup>>

\* saveRegistry's writeFile, then restoreBackup returns true
RestoreSave(t) ==
    /\ task[t].pc = "rs_save"
    /\ \/ /\ registryFile' = saveRegistry(backupRegistry)
          /\ task' = [task EXCEPT ![t].mutated = TRUE, ![t].res = "true",
                          ![t].pc = IF RestoreLogs(TRUE) THEN "rs_audit" ELSE "done"]
       \/ /\ task' = [task EXCEPT ![t] = Done(t, "throw")]
          /\ UNCHANGED registryFile
    /\ UNCHANGED <<checksumVars, mode, live, profiles, repositories, vault, gitFiles, backupFiles,
                   backupRegistry, auditLog, opCount, nextProfile, nextBackup,
                   lastWrite>>

RestoreAudit(t) ==
    /\ task[t].pc = "rs_audit"
    /\ \/ /\ auditLog' = Append(auditLog, AuditEntry("backup", "restored",
                                    task[t].uid, None, task[t].mutated))
          /\ task' = [task EXCEPT ![t] = Done(t, "ok")]
       \/ /\ task' = [task EXCEPT ![t] = Done(t, "throw")]
          /\ UNCHANGED auditLog
    /\ UNCHANGED <<checksumVars, mode, live, profiles, repositories, vault, gitFiles, backupFiles,
                   backupRegistry, registryFile, opCount, nextProfile, nextBackup,
                   lastWrite>>

\* -------------------------------------------- backup.delete (BACKUP_DELETE)
\* deleteBackup lines 541-547: findIndex
StartDeleteBackup(t) ==
    /\ CanStart(t)
    /\ opCount' = opCount + 1
    /\ \E id \in BackupIds :
        /\ KnownId(id)
        /\ live' = live \ {id}
        /\ IF IndexOf(backupRegistry, id) = 0
           THEN task' = [task EXCEPT ![t] = [IdleTask EXCEPT !.op = "deleteBackup",
                             !.pc = "done", !.uid = id, !.res = "false"]]
           ELSE task' = [task EXCEPT ![t] = [IdleTask EXCEPT !.op = "deleteBackup",
                             !.pc = "db_unlink", !.uid = id,
                             !.idx = IndexOf(backupRegistry, id)]]
    /\ UNCHANGED <<checksumVars, mode, profiles, repositories, vault, gitFiles, backupFiles,
                   backupRegistry, registryFile, auditLog, nextProfile, nextBackup,
                   lastWrite>>

\* deleteBackup lines 550-556: unlink, then splice at the index found earlier
DeleteUnlink(t) ==
    /\ task[t].pc = "db_unlink"
    /\ \/ /\ backupFiles' = [backupFiles EXCEPT ![task[t].uid] = NoFile]
          /\ backupRegistry' = Splice(backupRegistry, task[t].idx)
          /\ task' = [task EXCEPT ![t].pc = "db_save"]
       \/ /\ task' = [task EXCEPT ![t] = Done(t, "false")]
          /\ UNCHANGED <<backupFiles, backupRegistry>>
    /\ UNCHANGED <<checksumVars, mode, live, profiles, repositories, vault, gitFiles, registryFile,
                   auditLog, opCount, nextProfile, nextBackup, lastWrite>>

DeleteSave(t) ==
    /\ task[t].pc = "db_save"
    /\ \/ /\ registryFile' = saveRegistry(backupRegistry)
          /\ task' = [task EXCEPT ![t] = Done(t, "true")]
       \/ /\ task' = [task EXCEPT ![t] = Done(t, "false")]
          /\ UNCHANGED registryFile
    /\ UNCHANGED <<checksumVars, mode, live, profiles, repositories, vault, gitFiles, backupFiles,
                   backupRegistry, auditLog, opCount, nextProfile, nextBackup,
                   lastWrite>>

\* ------------------------------------------ backupService.cleanupOldBackups
\* lines 576-581: the ids of the backups older than the cutoff, not restored
ToDelete(reg, cutoff) ==
    LET Old(b) == b.timestamp < cutoff /\ ~b.restored
        old == SelectSeq(reg, Old)
    IN  [i \in 1..Len(old) |-> old[i].id]

\* cutoffDate = now - retentionDays, as a point on the backups' time line
Cutoffs == 1..(MaxBackups + 1)

StartCleanup(t) ==
    /\ CanStart(t)
    /\ opCount' = opCount + 1
    /\ \E cutoff \in Cutoffs :
        task' = [task EXCEPT ![t] = [IdleTask EXCEPT !.op = "cleanup",
                    !.pc = "cl_next", !.cutoff = cutoff, !.reg = backupRegistry,
                    !.todo = ToDelete(backupRegistry, cutoff)]]
    /\ UNCHANGED <<checksumVars, mode, live, profiles, repositories, vault, gitFiles,
                   backupFiles, backupRegistry, registryFile, auditLog, nextProfile,
                   nextBackup, lastWrite>>

\* lines 583-593: the next deleteBackup(id) and its findIndex, or the return
CleanupNext(t) ==
    /\ task[t].pc = "cl_next"
    /\ IF task[t].todo = <<>>
       THEN task' = [task EXCEPT ![t] = Done(t, "ok")]
       ELSE IF IndexOf(backupRegistry, Head(task[t].todo)) = 0
            THEN task' = [task EXCEPT ![t].todo = Tail(@)]
            ELSE task' = [task EXCEPT ![t].pc = "cl_unlink",
                            ![t].uid = Head(task[t].todo),
                            ![t].idx = IndexOf(backupRegistry, Head(task[t].todo))]
    /\ UNCHANGED <<checksumVars, mode, live, profiles, repositories, vault, gitFiles,
                   backupFiles, backupRegistry, registryFile, auditLog, opCount,
                   nextProfile, nextBackup, lastWrite>>

\* deleteBackup lines 550-556 within cleanupOldBackups; a throw makes
\* deleteBackup return false
CleanupUnlink(t) ==
    /\ task[t].pc = "cl_unlink"
    /\ \/ /\ backupFiles' = [backupFiles EXCEPT ![task[t].uid] = NoFile]
          /\ backupRegistry' = Splice(backupRegistry, task[t].idx)
          /\ task' = [task EXCEPT ![t].pc = "cl_save"]
       \/ /\ task' = [task EXCEPT ![t].pc = "cl_next", ![t].todo = Tail(@)]
          /\ UNCHANGED <<backupFiles, backupRegistry>>
    /\ UNCHANGED <<checksumVars, mode, live, profiles, repositories, vault, gitFiles,
                   registryFile, auditLog, opCount, nextProfile, nextBackup, lastWrite>>

\* saveRegistry, then deleteBackup returns true and deletedCount++
CleanupSave(t) ==
    /\ task[t].pc = "cl_save"
    /\ \/ /\ registryFile' = saveRegistry(backupRegistry)
          /\ task' = [task EXCEPT ![t].pc = "cl_next", ![t].todo = Tail(@),
                                  ![t].count = @ + 1]
       \/ /\ task' = [task EXCEPT ![t].pc = "cl_next", ![t].todo = Tail(@)]
          /\ UNCHANGED registryFile
    /\ UNCHANGED <<checksumVars, mode, live, profiles, repositories, vault, gitFiles,
                   backupFiles, backupRegistry, auditLog, opCount, nextProfile,
                   nextBackup, lastWrite>>

\* ------------------------------------------------ backup.list (BACKUP_LIST)
\* loadRegistry lines 379-380: pathExists, readFile
StartListBackups(t) ==
    /\ CanStart(t)
    /\ opCount' = opCount + 1
    /\ IF registryFile.exists
       THEN task' = [task EXCEPT ![t] = [IdleTask EXCEPT !.op = "listBackups",
                         !.pc = "ls_assign", !.reg = registryFile.entries]]
       ELSE task' = [task EXCEPT ![t] = [IdleTask EXCEPT !.op = "listBackups",
                         !.pc = "done", !.res = "ok"]]
    /\ UNCHANGED <<checksumVars, mode, live, profiles, repositories, vault, gitFiles, backupFiles,
                   backupRegistry, registryFile, auditLog, nextProfile, nextBackup,
                   lastWrite>>

\* loadRegistry line 381: backupRegistry = JSON.parse(data), a list of new
\* objects; a restoreBackup in flight is left holding an object of the old list
ListAssign(t) ==
    /\ task[t].pc = "ls_assign"
    /\ backupRegistry' = task[t].reg
    /\ task' = [u \in Tasks |->
                  IF u = t THEN Done(t, "ok")
                  ELSE IF task[u].pc = "rs_write" THEN [task[u] EXCEPT !.stale = TRUE]
                  ELSE task[u]]
    /\ UNCHANGED <<checksumVars, mode, live, profiles, repositories, vault, gitFiles, backupFiles,
                   registryFile, auditLog, opCount, nextProfile, nextBackup,
                   lastWrite>>

\* ------------------------------------------------------- the repository walk
\* A directory and the directories below it, one under the other:
\* tree[1] is the scan directory, tree[i + 1] a subdirectory of tree[i]; each
\* has a base name and may hold a .git entry.
MaxChain == 6
Names == {"src", "vendor"}
Skipped == {"node_modules", ".git", "vendor", "packages", ".npm", ".cache"}
maxDepth == 4
Dirs == [name : Names, git : BOOLEAN]
Trees == UNION {[1..n -> Dirs] : n \in 1..MaxChain}

\* findGitRepos(dir, maxDepth, currentDepth), dir being tree[currentDepth + 1];
\* a path it returns is given by its depth below the scan directory
RECURSIVE findGitRepos(_, _)
findGitRepos(tree, currentDepth) ==
    IF currentDepth > maxDepth THEN <<>>
    ELSE IF tree[currentDepth + 1].git THEN <<currentDepth>>
    ELSE IF tree[currentDepth + 1].name \in Skipped THEN <<>>
    ELSE IF currentDepth + 1 < Len(tree)
         THEN findGitRepos(tree, currentDepth + 1)
         ELSE <<>>

\* [...new Set(list)]: the first occurrence of each element, in order
RECURSIVE Unique(_)
Unique(list) ==
    IF list = <<>> THEN <<>>
    ELSE LET init == Unique(SubSeq(list, 1, Len(list) - 1))
             last == list[Len(list)]
         IN  IF \E i \in 1..Len(init) : init[i] = last
             THEN init ELSE Append(init, last)

\* discover lines 204-222, for one scan directory
scanRepositories(tree) ==
    Unique((IF tree[1].git THEN <<0>> ELSE <<>>) \o findGitRepos(tree, 0))

NotWalked == [walked |-> FALSE, tree |-> <<>>, repositories |-> <<>>]

\* ------------------------------------------------- buildIdentitySuggestions
\* An SSHKeyInfo: its comment ('' when the public key has none), its
\* fingerprint ('' when ssh-keygen gave none) and its private path, which is
\* its place in the list.  '' is also the e-mail that is not there.
MaxKeys == 2
Comments == {"", "laptop", "a@x", "b@x"}
Fingerprints == {"", "SHA256:f"}
Hosts == {"github.com", "build"}
PrivatePaths == <<"~/.ssh/k1", "~/.ssh/k2", "~/.ssh/k3", "~/.ssh/k4">>
KeyLists ==
    UNION {{ks \in [1..n -> [comment : Comments, fingerprint : Fingerprints,
                             privatePath : {PrivatePaths[i] : i \in 1..MaxKeys}]] :
                \A i \in 1..n : ks[i].privatePath = PrivatePaths[i]} :
           n \in 0..MaxKeys}
EntryLists ==
    UNION {[1..n -> [host : Hosts, identityFile : {"", PrivatePaths[1]}]] :
           n \in 0..1}

\* key.comment?.includes('@')
IncludesAt(comment) == comment \in {"a@x", "b@x"}

\* inferProvider(entry.hostName || entry.host)
inferProvider(host) == IF host = "github.com" THEN "github" ELSE ""

KeyIdByPath(key) == key.privatePath

\* line 254: key.comment || key.fingerprint || key.privatePath
KeyId(key) ==
    IF key.comment # "" THEN key.comment
    ELSE IF key.fingerprint # "" THEN key.fingerprint
    ELSE key.privatePath

\* lines 252-280: the identities of the first n keys, and the ids seen
RECURSIVE FromKeys(_, _)
FromKeys(keys, n) ==
    IF n = 0 THEN [seen |-> {}, identities |-> <<>>]
    ELSE LET sofar == FromKeys(keys, n - 1)
             key == keys[n]
         IN  IF KeyId(key) \in sofar.seen THEN sofar
             ELSE [seen |-> sofar.seen \cup {KeyId(key)},
                   identities |-> Append(sofar.identities,
                        [source |-> "ssh_key",
                         email |-> IF IncludesAt(key.comment) THEN key.comment ELSE "",
                         sshKey |-> n, host |-> ""])]

\* lines 283-299: the identity of the global git config
FromGitConfig(sofar, email) ==
    IF email # "" /\ email \notin sofar.seen
    THEN [seen |-> sofar.seen \cup {email},
          identities |-> Append(sofar.identities,
                [source |-> "git_config", email |-> email, sshKey |-> 0,
                 host |-> ""])]
    ELSE sofar

\* lines 302-323: the identities of the SSH config entries that name no key
RECURSIVE FromEntries(_, _, _)
FromEntries(sofar, entries, n) ==
    IF n = 0 THEN sofar
    ELSE LET before == FromEntries(sofar, entries, n - 1)
             e == entries[n]
         IN  IF e.identityFile # "" \/ e.host \in before.seen THEN before
             ELSE [seen |-> before.seen \cup {e.host},
                   identities |->
                        IF inferProvider(e.host) # ""
                        THEN Append(before.identities,
                                [source |-> "ssh_config", email |-> "",
                                 sshKey |-> 0, host |-> e.host])
                        ELSE before.identities]

buildIdentitySuggestions(result) ==
    FromEntries(FromGitConfig(FromKeys(result.sshKeys, Len(result.sshKeys)),
                              result.globalEmail),
                result.sshConfigEntries, Len(result.sshConfigEntries)).identities

\* ------------------------------------------------------- values held idle
NotSuggested == [built |-> FALSE, given |-> <<>>, identities |-> <<>>]
\* ---------------------------------------------------------- the audit files
\* Time is counted in ticks, TicksPerDay of them to a UTC day; an entry's
\* timestamp is the tick at which auditService.log made it.
MaxClock == 3
MaxLines == 3
TicksPerDay == 2
Days == 0..(MaxClock \div TicksPerDay)
Categories == {"profile", "backup"}

\* date.toISOString().split('T')[0]
DayOf(time) == time \div TicksPerDay

\* getAuditLogPath(): the default date, new Date() at the time of the call;
\* appendToLog passes it no date
getAuditLogPath(stamp, now) == DayOf(now)

NotRead == [read |-> FALSE, options |-> <<>>, files |-> <<>>, entries |-> <<>>]
IdleLog == [pc |-> "idle", entry |-> <<>>]

Lines(files) == UNION {{files[d][i] : i \in 1..Len(files[d])} : d \in Days}

\* getLogs options; 0 stands for a date or a category that is not given,
\* and for a limit that is not given, which is then 100
LogOptions == [startDate : 0..1, endDate : {0, 2}, category : {"", "profile"},
               limit : {0, 1, 2}]

\* lines 140-142
Passes(e, o) ==
    /\ ~(o.startDate # 0 /\ e.timestamp < o.startDate)
    /\ ~(o.endDate # 0 /\ e.timestamp > o.endDate)
    /\ ~(o.category # "" /\ e.category # o.category)

RECURSIVE Reversed(_)
Reversed(seq) ==
    IF seq = <<>> THEN <<>> ELSE Append(Reversed(Tail(seq)), Head(seq))

RECURSIVE Filtered(_, _)
Filtered(seq, o) ==
    IF seq = <<>> THEN <<>>
    ELSE IF Passes(Head(seq), o) THEN <<Head(seq)>> \o Filtered(Tail(seq), o)
    ELSE Filtered(Tail(seq), o)

\* lines 124-127 and 131-151: the files from day down to the first, the
\* lines of each from its last to its first, those that pass the filters
RECURSIVE NewestFirst(_, _, _)
NewestFirst(files, o, day) ==
    LET here == Filtered(Reversed(files[day]), o)
    IN  IF day = 0 THEN here ELSE here \o NewestFirst(files, o, day - 1)

Take(seq, n) == SubSeq(seq, 1, IF Len(seq) < n THEN Len(seq) ELSE n)

\* getLogs: collecting stops once limit entries are in hand
getLogs(files, o) ==
    Take(NewestFirst(files, o, DayOf(MaxClock)),
         IF o.limit = 0 THEN 100 ELSE o.limit)

IdleOthers ==
    /\ walk = NotWalked
    /\ suggested = NotSuggested
    /\ clock = 0
    /\ auditFiles = [d \in Days |-> <<>>]
    /\ logCalls = [t \in Tasks |-> IdleLog]
    /\ logsRead = NotRead

\* ----------------------------------------------------------- specifications
TypeOK ==
    /\ mode \in {"serial", "conc"}
    /\ opCount \in 0..MaxOps
    /\ vault \subseteq ProfileIds

InitFiles ==
    /\ repositories = [r \in {"local"} |-> NoRepo]
    /\ vault = {}
    /\ gitFiles \in [Paths -> {NoFile, [exists |-> TRUE, email |-> None,
                                        name |-> None, url |-> 0]}]
    /\ gitFiles["local"].exists
    /\ backupFiles = [b \in BackupIds |-> NoFile]
    /\ backupRegistry = <<>>
    /\ registryFile = [exists |-> FALSE, entries |-> <<>>]
    /\ task = [t \in Tasks |-> IdleTask]
    /\ opCount = 0
    /\ nextBackup = 1
    /\ lastWrite = NoWrite
    /\ live = {}
    /\ tampered = FALSE
    /\ parsed = FALSE

\* a fresh installation: the electron-store defaults, no audit file
InitFresh ==
    /\ InitFiles
    /\ entry = NoEntry
    /\ sanitized = NotLogged
    /\ IdleOthers
    /\ profiles = <<>>
    /\ auditLog = <<>>
    /\ nextProfile = 1

\* the installation after its first profileService.create
InitOneProfile ==
    /\ InitFiles
    /\ entry = NoEntry
    /\ sanitized = NotLogged
    /\ IdleOthers
    /\ profiles = CreateStore(<<>>, 1, NoInput)
    /\ auditLog = <<AuditEntry("profile", "created", 1, None, TRUE)>>
    /\ nextProfile = 2

Init == mode = "serial" /\ InitFresh

ProfileSteps(t) ==
    \/ StartCreate(t) \/ CreateToken(t) \/ CreateAudit(t)
    \/ StartUpdate(t) \/ UpdateToken(t) \/ UpdateAudit(t)
    \/ StartDelete(t) \/ DeleteToken(t) \/ DeleteAudit(t)
    \/ SetDefault(t)

ConfigSteps(t) ==
    \/ BackupRead(t) \/ BackupWrite(t) \/ BackupSave(t)
    \/ WriteEmail(t) \/ WriteName(t)

DiscoverSteps(t) ==
    \/ DiscoverKeys(t) \/ DiscoverSSHConfig(t) \/ DiscoverGitConfig(t)
    \/ DiscoverWalk(t) \/ DiscoverAudit(t)

BackupSteps(t) ==
    \/ StartRestore(t) \/ RestoreWrite(t) \/ RestoreSave(t) \/ RestoreAudit(t)
    \/ StartDeleteBackup(t) \/ DeleteUnlink(t) \/ DeleteSave(t)
    \/ StartListBackups(t) \/ ListAssign(t)

Next ==
    \E t \in Tasks :
        \/ ProfileSteps(t)
        \/ StartSwitchGlobal(t) \/ SwitchAudit(t)
        \/ StartBind(t) \/ BindAudit(t) \/ BindSave(t)
        \/ ConfigSteps(t)
        \/ SetRemoteUrl(t)
        \/ BackupSteps(t)
        \/ Return(t)

\* one handler at a time, from a fresh installation
Spec == Init /\ [][Next]_vars

\* the profile handlers, interleaving at their await points
NextProfiles ==
    \E t \in Tasks :
        \/ ProfileSteps(t)
        \/ StartSwitchGlobal(t) \/ SwitchAudit(t)
        \/ ConfigSteps(t)
        \/ Return(t)

InitConc == mode = "conc" /\ InitOneProfile

SpecProfiles == InitConc /\ [][NextProfiles]_vars

\* the handlers that reach the backup registry, interleaving likewise
NextBackups ==
    \E t \in Tasks :
        \/ StartSwitchGlobal(t) \/ SwitchAudit(t)
        \/ StartBind(t) \/ BindAudit(t) \/ BindSave(t)
        \/ ConfigSteps(t)
        \/ BackupSteps(t)
        \/ Return(t)

SpecBackups == InitConc /\ [][NextBackups]_vars

\* ------------------------------------------------- an audit entry, altered
\* an entry as auditService.log returns it
InitChecksum ==
    /\ mode = "serial"
    /\ InitFiles
    /\ sanitized = NotLogged
    /\ IdleOthers
    /\ profiles = <<>>
    /\ auditLog = <<>>
    /\ nextProfile = 1
    /\ \E action \in Values, backupId \in {Undefined} \cup Values,
          details \in [DetailKeys -> {Undefined} \cup Values] :
            entry = LogEntry(action, backupId, details)

ModelVars == <<mode, profiles, repositories, vault, gitFiles, backupFiles,
               backupRegistry, registryFile, auditLog, task, opCount, nextProfile,
               nextBackup, lastWrite, live>>

\* one top-level property is given another value
TamperTop ==
    /\ ~tampered
    /\ \E k \in TopKeys, v \in Values :
        /\ entry.top[k] \notin {Undefined, v}
        /\ entry' = [entry EXCEPT !.top[k] = v]
    /\ tampered' = TRUE
    /\ UNCHANGED <<ModelVars, parsed, sanitized, otherVars>>

\* one key of details is given another value
TamperDetails ==
    /\ ~tampered
    /\ \E k \in DetailKeys, v \in Values :
        /\ entry.details[k] \notin {Undefined, v}
        /\ entry' = [entry EXCEPT !.details[k] = v]
    /\ tampered' = TRUE
    /\ UNCHANGED <<ModelVars, parsed, sanitized, otherVars>>

\* getLogs: the entry comes back from the log file, which nobody altered
GetLogs ==
    /\ ~tampered /\ ~parsed
    /\ entry' = ReadBack(entry)
    /\ parsed' = TRUE
    /\ UNCHANGED <<ModelVars, tampered, sanitized, otherVars>>

NextChecksum == TamperTop \/ TamperDetails \/ GetLogs

SpecChecksum == InitChecksum /\ [][NextChecksum]_vars

\* ------------------------------------------------- the retention policy
\* the global config the backups were taken of, and a backup file whose
\* bytes are no longer the ones createBackup wrote
Original == [NoFile EXCEPT !.exists = TRUE]
Corrupted == [NoFile EXCEPT !.exists = TRUE, !.url = 1]

\* a registry of backups of the global config, restored or not, with their files
InitCleanup ==
    /\ mode = "serial"
    /\ entry = NoEntry /\ tampered = FALSE /\ parsed = FALSE
    /\ sanitized = NotLogged
    /\ IdleOthers
    /\ profiles = CreateStore(<<>>, 1, NoInput)
    /\ auditLog = <<AuditEntry("profile", "created", 1, None, TRUE)>>
    /\ nextProfile = 2
    /\ repositories = [r \in {"local"} |-> NoRepo]
    /\ vault = {}
    /\ gitFiles = [p \in Paths |-> addConfig(NoFile, "user.email", 1)]
    /\ task = [t \in Tasks |-> IdleTask]
    /\ opCount = 0
    /\ lastWrite = NoWrite
    /\ \E n \in 0..MaxBackups, flags \in [BackupIds -> BOOLEAN] :
        /\ backupRegistry = [i \in 1..n |->
                [BackupInfo(i, "global", Original) EXCEPT !.restored = flags[i]]]
        /\ \A i \in (n+1)..MaxBackups : ~flags[i]
        /\ backupFiles = [b \in BackupIds |-> IF b <= n THEN Original ELSE NoFile]
        /\ live = 1..n
        /\ nextBackup = n + 1
    /\ registryFile = saveRegistry(backupRegistry)

NextCleanup ==
    \E t \in Tasks :
        \/ StartCleanup(t) \/ CleanupNext(t) \/ CleanupUnlink(t) \/ CleanupSave(t)
        \/ Return(t)

SpecCleanup == InitCleanup /\ [][NextCleanup]_vars

\* ------------------------------------------------- restoring from backups
\* a registry of backups of the global config; a backup file may be missing
\* or have other bytes than createBackup wrote
InitRestore ==
    /\ mode = "serial"
    /\ entry = NoEntry /\ tampered = FALSE /\ parsed = FALSE
    /\ sanitized = NotLogged
    /\ IdleOthers
    /\ profiles = CreateStore(<<>>, 1, NoInput)
    /\ auditLog = <<AuditEntry("profile", "created", 1, None, TRUE)>>
    /\ nextProfile = 2
    /\ repositories = [r \in {"local"} |-> NoRepo]
    /\ vault = {}
    /\ gitFiles = [p \in Paths |-> addConfig(NoFile, "user.email", 1)]
    /\ task = [t \in Tasks |-> IdleTask]
    /\ opCount = 0
    /\ lastWrite = NoWrite
    /\ \E n \in 0..MaxBackups, flags \in [BackupIds -> BOOLEAN] :
        /\ backupRegistry = [i \in 1..n |->
                [BackupInfo(i, "global", Original) EXCEPT !.restored = flags[i]]]
        /\ \A i \in (n+1)..MaxBackups : ~flags[i]
        /\ backupFiles \in [BackupIds -> {NoFile, Original, Corrupted}]
        /\ \A b \in (n+1)..MaxBackups : backupFiles[b] = NoFile
        /\ live = 1..n
        /\ nextBackup = n + 1
    /\ registryFile = saveRegistry(backupRegistry)

NextRestore == \E t \in Tasks : BackupSteps(t) \/ Return(t)

SpecRestore == InitRestore /\ [][NextRestore]_vars

\* ------------------------------------------- identities, given and imported
\* profileService.create as the renderer may call it: the handler validates
\* nothing, so the e-mail may be '' and a key path may come without a new key
IdentityCreateInputs == [isDefault : {"undef", "true"}, token : {FALSE},
                         email : {"given", "empty"},
                         ssh : {"none", "path", "generate"}]

IdentityUpdateInputs == [isDefault : {"undef"}, token : {FALSE},
                         email : {"given"}, ssh : {"undef", "path"}]

\* importFromDiscovery of one selected identity: create with isDefault
\* imported.length === 0, email: identity.email || '', and
\* sshKeyPath: identity.sshKey?.privatePath
ImportInputs == [isDefault : {"true"}, token : {FALSE},
                 email : {"given", "empty"}, ssh : {"none", "path"}]

StartCreateAny(t) == StartCreateWith(t, IdentityCreateInputs)

StartUpdateAny(t) == StartUpdateWith(t, IdentityUpdateInputs)

importFromDiscovery(t) == StartCreateWith(t, ImportInputs)

\* one profile, and a ~/.gitconfig that already names a user
InitIdentity ==
    /\ mode = "serial"
    /\ entry = NoEntry /\ tampered = FALSE /\ parsed = FALSE
    /\ sanitized = NotLogged
    /\ IdleOthers
    /\ profiles = CreateStore(<<>>, 1, NoInput)
    /\ auditLog = <<AuditEntry("profile", "created", 1, None, TRUE)>>
    /\ nextProfile = 2
    /\ repositories = [r \in {"local"} |-> NoRepo]
    /\ vault = {}
    /\ gitFiles = [p \in Paths |->
            IF p = "global"
            THEN addConfig(addConfig(NoFile, "user.email", 1), "user.name", 1)
            ELSE Original]
    /\ backupFiles = [b \in BackupIds |-> NoFile]
    /\ backupRegistry = <<>>
    /\ registryFile = [exists |-> FALSE, entries |-> <<>>]
    /\ task = [t \in Tasks |-> IdleTask]
    /\ opCount = 0
    /\ nextBackup = 1
    /\ lastWrite = NoWrite
    /\ live = {}

NextIdentity ==
    \E t \in Tasks :
        \/ StartCreateAny(t) \/ importFromDiscovery(t) \/ CreateAudit(t)
        \/ StartUpdateAny(t) \/ UpdateAudit(t)
        \/ StartSwitchGlobal(t) \/ SwitchAudit(t)
        \/ ConfigSteps(t)
        \/ Return(t)

SpecIdentity == InitIdentity /\ [][NextIdentity]_vars

\* ------------------------------------------------- repositories, bound or not
\* one profile and a repository whose .git/config names no user; handlers run
\* one at a time
InitRepos ==
    /\ mode = "serial"
    /\ entry = NoEntry /\ tampered = FALSE /\ parsed = FALSE
    /\ sanitized = NotLogged
    /\ IdleOthers
    /\ profiles = CreateStore(<<>>, 1, NoInput)
    /\ auditLog = <<AuditEntry("profile", "created", 1, None, TRUE)>>
    /\ nextProfile = 2
    /\ repositories = [r \in {"local"} |-> NoRepo]
    /\ vault = {}
    /\ gitFiles = [p \in Paths |-> Original]
    /\ backupFiles = [b \in BackupIds |-> NoFile]
    /\ backupRegistry = <<>>
    /\ registryFile = [exists |-> FALSE, entries |-> <<>>]
    /\ task = [t \in Tasks |-> IdleTask]
    /\ opCount = 0
    /\ nextBackup = 1
    /\ lastWrite = NoWrite
    /\ live = {}

NextRepos ==
    \E t \in Tasks :
        \/ StartBind(t) \/ BindAudit(t) \/ BindSave(t)
        \/ ConfigSteps(t)
        \/ Unbind(t) \/ GetRepo(t) \/ Scan(t) \/ ScanSave(t)
        \/ DiscoverSteps(t)
        \/ SetRemoteUrl(t)
        \/ StartRestore(t) \/ RestoreWrite(t) \/ RestoreSave(t) \/ RestoreAudit(t)
        \/ Return(t)

SpecRepos == InitRepos /\ [][NextRepos]_vars

\* ------------------------------------------------------ discovery, by itself
NextDiscovery ==
    \E t \in Tasks :
        \/ StartDiscover(t)
        \/ DiscoverSteps(t)
        \/ Return(t)

SpecDiscovery == InitRepos /\ [][NextDiscovery]_vars

\* an installation with nothing stored, for the operations that reach no store
InitBare ==
    /\ mode = "serial"
    /\ InitFiles
    /\ entry = NoEntry
    /\ sanitized = NotLogged
    /\ profiles = <<>>
    /\ auditLog = <<>>
    /\ nextProfile = 1

\* ------------------------------------------------ the walk, tree by tree
InitWalk ==
    /\ InitBare
    /\ suggested = NotSuggested
    /\ clock = 0
    /\ auditFiles = [d \in Days |-> <<>>]
    /\ logCalls = [t \in Tasks |-> IdleLog]
    /\ logsRead = NotRead
    /\ \E tree \in Trees : walk = [NotWalked EXCEPT !.tree = tree]

Walk ==
    /\ ~walk.walked
    /\ walk' = [walk EXCEPT !.walked = TRUE,
                            !.repositories = scanRepositories(walk.tree)]
    /\ UNCHANGED <<ModelVars, entry, tampered, parsed, sanitized, suggested, clock,
                   auditFiles, logCalls, logsRead>>

NextWalk == Walk

SpecWalk == InitWalk /\ [][NextWalk]_vars

\* ------------------------------------------- suggestions, result by result
InitSuggest ==
    /\ InitBare
    /\ walk = NotWalked
    /\ clock = 0
    /\ auditFiles = [d \in Days |-> <<>>]
    /\ logCalls = [t \in Tasks |-> IdleLog]
    /\ logsRead = NotRead
    /\ \E keys \in KeyLists, email \in {"", "a@x", "b@x"}, entries \in EntryLists :
        suggested = [NotSuggested EXCEPT !.given =
            [sshKeys |-> keys, globalEmail |-> email, sshConfigEntries |-> entries]]

\* discover line 227: result.identities = this.buildIdentitySuggestions(result)
Suggest ==
    /\ ~suggested.built
    /\ suggested' = [suggested EXCEPT !.built = TRUE,
                        !.identities = buildIdentitySuggestions(suggested.given)]
    /\ UNCHANGED <<ModelVars, entry, tampered, parsed, sanitized, walk, clock,
                   auditFiles, logCalls, logsRead>>

NextSuggest == Suggest

SpecSuggest == InitSuggest /\ [][NextSuggest]_vars

\* ------------------------------------------- the audit files, call by call
InitAuditFiles ==
    /\ InitFiles
    /\ mode \in {"serial", "conc"}
    /\ entry = NoEntry
    /\ sanitized = NotLogged
    /\ profiles = <<>>
    /\ auditLog = <<>>
    /\ nextProfile = 1
    /\ IdleOthers

UnchangedButAudit ==
    UNCHANGED <<ModelVars, entry, tampered, parsed, sanitized, walk, suggested>>

InFlight == {t \in Tasks : logCalls[t].pc # "idle"}

\* the next uuid
NextEntryId ==
    LET used == {e.id : e \in Lines(auditFiles)} \cup
                {logCalls[t].entry.id : t \in InFlight}
    IN  CHOOSE n \in 1..(MaxLines + MaxTasks + 1) : n \notin used /\
            \A m \in 1..(n - 1) : m \in used

\* auditService.log lines 39-55: the entry, with timestamp new Date(), up to
\* the await in appendToLog
LogStart(t) ==
    /\ ~logsRead.read
    /\ logCalls[t].pc = "idle"
    /\ (mode = "serial" => InFlight = {})
    /\ Cardinality(Lines(auditFiles)) + Cardinality(InFlight) < MaxLines
    /\ \E category \in Categories :
        logCalls' = [logCalls EXCEPT ![t] =
            [pc |-> "stamped",
             entry |-> [id |-> NextEntryId, timestamp |-> clock,
                        category |-> category]]]
    /\ UNCHANGED <<clock, auditFiles, logsRead>>
    /\ UnchangedButAudit

\* appendToLog lines 104-107: the path for the date it is now, then
\* fs.appendFile, which may throw
LogAppend(t) ==
    /\ ~logsRead.read
    /\ logCalls[t].pc = "stamped"
    /\ \/ auditFiles' = [auditFiles EXCEPT
                ![getAuditLogPath(logCalls[t].entry.timestamp, clock)] =
                    Append(@, logCalls[t].entry)]
       \/ UNCHANGED auditFiles
    /\ logCalls' = [logCalls EXCEPT ![t] = IdleLog]
    /\ UNCHANGED <<clock, logsRead>>
    /\ UnchangedButAudit

\* time passes
Tick ==
    /\ ~logsRead.read
    /\ clock < MaxClock
    /\ clock' = clock + 1
    /\ UNCHANGED <<auditFiles, logCalls, logsRead>>
    /\ UnchangedButAudit

\* AUDIT_GET_LOGS: auditService.getLogs(options), on the files as they are
\* at the end of a run
ReadLogs ==
    /\ ~logsRead.read
    /\ \E o \in LogOptions :
        logsRead' = [read |-> TRUE, options |-> o, files |-> auditFiles,
                     entries |-> getLogs(auditFiles, o)]
    /\ UNCHANGED <<clock, auditFiles, logCalls>>
    /\ UnchangedButAudit

NextAuditFiles ==
    \/ \E t \in Tasks : LogStart(t) \/ LogAppend(t)
    \/ Tick
    \/ ReadLogs

SpecAuditFiles == InitAuditFiles /\ [][NextAuditFiles]_vars

\* ------------------------------------------- details, as they are logged
InitSanitize ==
    /\ mode = "serial"
    /\ InitFiles
    /\ entry = NoEntry
    /\ profiles = <<>>
    /\ auditLog = <<>>
    /\ nextProfile = 1
    /\ IdleOthers
    /\ \E details \in DetailsInputs :
            sanitized = [logged |-> FALSE, details |-> details, out |-> <<>>]

\* auditService.log line 44: details: this.sanitizeDetails(details)
LogDetails ==
    /\ ~sanitized.logged
    /\ sanitized' = [sanitized EXCEPT !.logged = TRUE,
                                      !.out = sanitizeDetails(sanitized.details)]
    /\ UNCHANGED <<ModelVars, entry, tampered, parsed, otherVars>>

NextSanitize == LogDetails

SpecSanitize == InitSanitize /\ [][NextSanitize]_vars

\* ------------------------------------------------------------------- claims
Returned == \A t \in Tasks : task[t].pc \in {"idle", "done"}

\* C1: with the profile handlers run one at a time, whenever none is in flight
\* and the store holds a profile, exactly one stored profile has isDefault.
C1_ExactlyOneDefault ==
    (Returned /\ Len(profiles) > 0) => Cardinality(Defaults(profiles)) = 1

\* C2: every write to a git config file is preceded, in its handler, by a
\* createBackup call on the path written.
C2_BackupBeforeEveryWrite == lastWrite.backedUp

\* C3: a config write of switchGlobal or repos.bind comes after createBackup
\* has returned, and, when the config file was there, after registry.json was
\* written with the new BackupInfo in it.
C3_BackupRecordedBeforeWrite ==
    lastWrite.op \in {"switchGlobal", "bind"} =>
        /\ lastWrite.backedUp
        /\ lastWrite.hadFile => lastWrite.persisted

C5_FailureLeavesConfig ==
    \A t \in Tasks :
        (task[t].op \in {"switchGlobal", "bind"} /\ task[t].pc = "done"
            /\ task[t].res = "fail" /\ task[t].path \in Paths) =>
                gitFiles[task[t].path] = task[t].before

C7_AuditCarriesBackupId ==
    \A t \in Tasks :
        (task[t].pc \in {"s_audit", "l_save"} /\ task[t].bk # None) =>
            \E i \in 1..Len(auditLog) : auditLog[i].backupId = task[t].bk

\* C8: under any interleaving of the profile handlers no two stored profiles
\* have isDefault (the first of the two store states the claim rules out).
C8_NoTwoDefaults == Cardinality(Defaults(profiles)) <= 1

\* C9: every backup createBackup has returned, unless a deleteBackup was asked
\* for it, is in the in-memory registry and in registry.json.
C9_NoRegistryEntryLost ==
    \A id \in live :
        /\ id \in RegistryIds(backupRegistry)
        /\ registryFile.exists
        /\ id \in RegistryIds(registryFile.entries)

\* C10: verifyEntry gives false for a logged entry one of whose fields, top
\* level or inside details, was given another value.
C10_TamperDetected == tampered => ~verifyEntry(entry)

\* C11: verifyEntry gives true for an entry auditService.log returned, and for
\* that entry as getLogs reads it back from a log file nobody altered.
C11_LoggedEntryVerifies == ~tampered => verifyEntry(entry)

\* what the claim asks of a logged value, given the value handed in
RECURSIVE RedactedAtEveryDepth(_, _)
RedactedAtEveryDepth(given, logged) ==
    /\ logged.kind = given.kind
    /\ CASE given.kind = "scalar" -> logged = given
         [] given.kind = "array" ->
                /\ Len(logged.items) = Len(given.items)
                /\ \A i \in 1..Len(given.items) :
                        RedactedAtEveryDepth(given.items[i], logged.items[i])
         [] OTHER ->
                /\ DOMAIN logged.fields = DOMAIN given.fields
                /\ \A key \in DOMAIN given.fields :
                        IF Sensitive(key) THEN logged.fields[key] = Redacted
                        ELSE RedactedAtEveryDepth(given.fields[key], logged.fields[key])

\* C12: in the details auditService.log writes, every key with a secret-like
\* name, inside nested objects and inside arrays, has the value '[REDACTED]',
\* and everything else is as it was handed in.
C12_SecretsRedacted ==
    sanitized.logged =>
        RedactedAtEveryDepth(Object(sanitized.details), Object(sanitized.out))

\* C13 (its last part): the number cleanupOldBackups returns is the number of
\* backups that are gone from the registry it began with.
C13_CountIsNumberRemoved ==
    \A t \in Tasks :
        (task[t].op = "cleanup" /\ task[t].pc = "done") =>
            task[t].count =
                Cardinality(RegistryIds(task[t].reg) \ RegistryIds(backupRegistry))

\* C14: a restoreBackup whose id is not registered, or whose backup file is
\* missing, returns false, and the handler returns its error envelope, with
\* the config files, the backup files, the registry in memory and on disk
\* and the audit log as they were.
C14_FailedRestoreChangesNothing ==
    [][\A t \in Tasks :
        /\ (task[t].pc = "idle" /\ task'[t].op = "restore"
                /\ ~(IndexOf(backupRegistry, task'[t].uid) # 0
                        /\ backupFiles[task'[t].uid].exists)) =>
            /\ task'[t].pc = "done" /\ task'[t].res = "false"
            /\ UNCHANGED <<gitFiles, backupFiles, backupRegistry, registryFile,
                           auditLog>>
        /\ (task[t].op = "restore" /\ task[t].res = "false") =>
            UNCHANGED <<gitFiles, backupFiles, backupRegistry, registryFile,
                        auditLog>>]_vars

\* a restore of a registered backup whose file is missing has reported failure
C14_Witness ==
    \E t \in Tasks :
        /\ task[t].op = "restore" /\ task[t].res = "false" /\ task[t].pc = "done"
        /\ IndexOf(backupRegistry, task[t].uid) > 0
        /\ ~backupFiles[task[t].uid].exists

\* C15: once restoreBackup has returned true, the original path holds the
\* content of the backup file, whatever its hash, and the backup's entry in
\* registry.json has restored = true.
C15_RestoreOverwritesAndMarks ==
    \A t \in Tasks :
        (task[t].op = "restore" /\ task[t].res = "true") =>
            /\ (mode = "serial" => gitFiles[task[t].path] = backupFiles[task[t].uid])
            /\ \A i \in 1..Len(registryFile.entries) :
                    registryFile.entries[i].id = task[t].uid =>
                        registryFile.entries[i].restored

\* C16: once switchGlobal(id) has returned success for profile P, the global
\* config's user.email and user.name are P's, P is the one default profile,
\* the registry holds a backup of the global config with the hash of the
\* content it had before (when the file was there), and the audit log ends
\* with a 'profile' / 'global_switch' entry.
C16_SwitchGlobalPostcondition ==
    \A t \in Tasks :
        (task[t].op = "switchGlobal" /\ task[t].pc = "done" /\ task[t].res = "ok") =>
            /\ gitFiles["global"].email = task[t].prof.email
            /\ gitFiles["global"].name = task[t].prof.username
            /\ Defaults(profiles) = {IndexOf(profiles, task[t].id)}
            /\ task[t].before.exists =>
                    \E i \in 1..Len(backupRegistry) :
                        /\ backupRegistry[i].originalPath = "global"
                        /\ backupRegistry[i].originalHash = sha256(task[t].before)
            /\ Len(auditLog) > 0
            /\ auditLog[Len(auditLog)].category = "profile"
            /\ auditLog[Len(auditLog)].action = "global_switch"

\* C17 (the token, for a profile created without one): once delete(id) has
\* returned true, whatever create and update calls the profile went through,
\* the vault holds no token under id.
C17_NoTokenAfterDelete ==
    \A t \in Tasks :
        (task[t].op = "delete" /\ task[t].pc = "done" /\ task[t].res = "true"
            /\ task[t].prof.tokenId = None) =>
                task[t].id \notin vault

\* C18: every stored profile has sshKeyPath and sshHostAlias both set or both
\* unset, after any create, update and importFromDiscovery calls.
C18_KeyPathWithAlias ==
    \A i \in 1..Len(profiles) :
        (profiles[i].sshKeyPath = None) <=> (profiles[i].sshHostAlias = None)

C20_MismatchReported ==
    [][\A t \in Tasks :
        LET bound == repositories["local"].boundProfileId
            P == getProfile(profiles, bound)
            differs == \/ gitFiles["local"].email # P.email
                       \/ gitFiles["local"].name # P.username
        IN  (/\ task[t].pc # "done" /\ task'[t].pc = "done"
             /\ task'[t].op \in {"getRepo", "scan"}
             /\ task'[t].repo.stored
             /\ bound # None /\ P # NoProfile) =>
                IF differs
                THEN task'[t].repo.hasMismatch /\ task'[t].repo.status = "mismatch"
                ELSE ~task'[t].repo.hasMismatch]_vars

\* C21: discover is read-only: no step of it changes the config files, the
\* record store, the vault, the backups and their registry, or the audit
\* files.
C21_DiscoverReadOnly ==
    [][\A t \in Tasks :
        (task[t].op = "discover" \/ task'[t].op = "discover") =>
            UNCHANGED <<gitFiles, profiles, repositories, vault, backupFiles,
                        backupRegistry, registryFile, auditLog>>]_vars

\* C22: whichever phases fail, and whether or not the completion step
\* fails, discover returns a result, with one error string for each failed
\* phase and the output of every phase that succeeded.
C22_FailuresAreReported ==
    \A t \in Tasks :
        (task[t].op = "discover" /\ task[t].pc = "done") =>
            /\ task[t].res = "ok"
            /\ Len(task[t].errors) = Cardinality(task[t].failed)
            /\ \A ph \in task[t].failed :
                    \E i \in 1..Len(task[t].errors) : task[t].errors[i] = ph
            /\ task[t].got \cap task[t].failed = {}

\* C23: every path the walk returns holds a .git entry, lies at most 4 levels
\* below the scan directory, is not inside another returned repository, and
\* is neither itself nor below a directory named node_modules, .git, vendor,
\* packages, .npm or .cache (below the scan directory); no path is returned
\* twice.
C23_WalkReturnsOnlyWantedRepos ==
    walk.walked =>
        LET repos == walk.repositories IN
        /\ \A i \in 1..Len(repos) :
                LET d == repos[i] IN
                /\ walk.tree[d + 1].git
                /\ d <= 4
                /\ \A j \in 1..Len(repos) : ~(repos[j] < d)
                /\ \A k \in 1..d : walk.tree[k + 1].name \notin Skipped
        /\ \A i, j \in 1..Len(repos) : repos[i] = repos[j] => i = j

\* C24: buildIdentitySuggestions returns no two identities with the same
\* e-mail: the keys that share a comment give one identity, and the global
\* config's e-mail gives an identity only when no key's identity carries it.
C24_NoEmailSuggestedTwice ==
    suggested.built =>
        LET ids == suggested.identities
            keys == suggested.given.sshKeys
        IN  /\ \A i, j \in 1..Len(ids) :
                    (ids[i].email # "" /\ ids[i].email = ids[j].email) => i = j
            /\ \A c \in Comments \ {""} :
                    (\E k \in 1..Len(keys) : keys[k].comment = c) =>
                        Cardinality({i \in 1..Len(ids) :
                            /\ ids[i].source = "ssh_key"
                            /\ keys[ids[i].sshKey].comment = c}) = 1
            /\ \A i \in 1..Len(ids) :
                    ids[i].source = "git_config" =>
                        \A j \in 1..Len(ids) :
                            ids[j].source = "ssh_key" => ids[j].email # ids[i].email

\* two keys with the comment a@x and a global config with that e-mail have
\* given one identity
C24_Witness ==
    /\ suggested.built
    /\ Len(suggested.given.sshKeys) = 2
    /\ \A k \in 1..2 : suggested.given.sshKeys[k].comment = "a@x"
    /\ suggested.given.globalEmail = "a@x"
    /\ Cardinality({i \in 1..Len(suggested.identities) :
                        suggested.identities[i].email = "a@x"}) = 1

\* C25: getLogs returns at most limit entries (100 when no limit is given),
\* each passing every filter given, newest first, and they are the newest
\* entries that pass: none left out is newer than one returned.
C25_NewestMatchingFirst ==
    logsRead.read =>
        LET o == logsRead.options
            R == logsRead.entries
            all == Lines(logsRead.files)
            returned == {R[i] : i \in 1..Len(R)}
        IN  /\ Len(R) <= (IF o.limit = 0 THEN 100 ELSE o.limit)
            /\ \A e \in returned : e \in all /\ Passes(e, o)
            /\ \A i, j \in 1..Len(R) : i < j => R[i].timestamp >= R[j].timestamp
            /\ \A e \in all \ returned :
                    Passes(e, o) => \A r \in returned : e.timestamp <= r.timestamp

\* C26 (the file of a line): every line of audit-<D>.jsonl is an entry whose
\* own timestamp has the UTC date D.
C26_LineInFileOfItsDate ==
    \A d \in Days : \A i \in 1..Len(auditFiles[d]) :
        DayOf(auditFiles[d][i].timestamp) = d

\* C27: a stored Repository's boundProfileId changes only in a step of
\* repos.bind or repos.unbind; repos.scan leaves it as it is.
C27_BindingOutlivesScan ==
    [][repositories'["local"].boundProfileId # repositories["local"].boundProfileId =>
            \E t \in Tasks : task'[t].op \in {"bind", "unbind"}]_vars

\* C28: when switchGlobal(A) and switchGlobal(B), A # B, ran at the same
\* time and both returned success, the global user.email and user.name are
\* those of one of the two profiles, and that profile is the default.
C28_SwitchesDoNotMix ==
    \A t, u \in Tasks :
        (/\ task[t].op = "switchGlobal" /\ task[t].pc = "done" /\ task[t].res = "ok"
         /\ task[u].op = "switchGlobal" /\ task[u].pc = "done" /\ task[u].res = "ok"
         /\ task[t].id # task[u].id) =>
            \E w \in {t, u} :
                /\ gitFiles["global"].email = task[w].prof.email
                /\ gitFiles["global"].name = task[w].prof.username
                /\ Defaults(profiles) = {IndexOf(profiles, task[w].id)}

\* C29: a stored Repository whose boundProfileId is set names a profile that
\* is in the profile store.
C29_BoundProfileExists ==
    \A r \in DOMAIN repositories :
        repositories[r].boundProfileId # None =>
            getProfile(profiles, repositories[r].boundProfileId) # NoProfile

\* C30: setDefault, update, delete, switchGlobal and repos.bind called with a
\* profile id that is not in the store return at once with a failure (false,
\* null, success: false, PROFILE_NOT_FOUND) and leave the profiles and their
\* default flags, both git configs, the vault, the backups and their registry,
\* the stored repositories and the audit log as they were.
FailureOf(op) ==
    CASE op \in {"setDefault", "delete"} -> "false"
      [] op = "update" -> "null"
      [] op \in {"switchGlobal", "bind"} -> "fail"

C30_UnknownIdChangesNothing ==
    [][\A t \in Tasks :
          (/\ task[t] = IdleTask
           /\ task'[t].op \in {"setDefault", "update", "delete", "switchGlobal", "bind"}
           /\ getProfile(profiles, task'[t].id) = NoProfile) =>
              /\ task'[t].pc = "done"
              /\ task'[t].res = FailureOf(task'[t].op)
              /\ UNCHANGED <<profiles, gitFiles, vault, backupFiles, backupRegistry,
                             registryFile, repositories, auditLog>>]_vars

\* a setDefault of an id the store does not hold has returned false while the
\* store holds a default profile
C30_Witness ==
    \E t \in Tasks :
        /\ task[t].op = "setDefault" /\ task[t].pc = "done" /\ task[t].res = "false"
        /\ getProfile(profiles, task[t].id) = NoProfile
        /\ Defaults(profiles) # {}

====
